---- MODULE Spec2Model ----
(***************************************************************************)
(* Model of datashader/data_libraries/dask.py: the partitioned aggregation *)
(* pipeline for dask DataFrames (dask_pipeline, shape_bounds_st_and_axis,  *)
(* the generic plan builder `default` and the line plan builder `line`).   *)
(*                                                                         *)
(* A dataset is a sequence of rows; row r (its position, 1..n) has the     *)
(* coordinates data[r] = <<x, y>>.  A dask DataFrame is that sequence cut   *)
(* into N ordered partitions, parts[0] .. parts[N-1], some possibly empty. *)
(* An aggregate buffer is a count per pixel <<row, column>> of the grid.    *)
(***************************************************************************)
EXTENDS Integers, Sequences, FiniteSets, TLC

\* ---------------------------------------------------------------- bounds
MaxRows == 2
MaxParts == 3
PlotWidth == 2
PlotHeight == 2
MaxList == 2
MaxCount == 2

\* ------------------------------------------------------------ input sets
\* the points <<x, y>> a row may hold; their x and y extents differ
Points == {<<0, 0>>, <<1, 2>>}
\* a range the canvas may supply; <<>> is Python's None (both are falsy);
\* the supplied x range leaves the point <<0, 0>> out of bounds
XRanges == {<<>>, <<1, 2>>}
YRanges == {<<>>, <<0, 2>>}
\* the glyph classes: Point is a Glyph, LineAxis0 is a Glyph, Other is not
GlyphTypes == {"Point", "LineAxis0", "Other"}
NoScheduler == "none"
Schedulers == {"threaded", "sync"}

RECURSIVE SeqsUpTo(_, _)
SeqsUpTo(S, n) ==
    IF n = 0 THEN {<<>>}
    ELSE LET shorter == SeqsUpTo(S, n - 1)
         IN  shorter \cup {Append(s, e) : s \in {t \in shorter : Len(t) = n - 1}, e \in S}

\* rows lo+1 .. hi of the dataset, in order
RowsBetween(lo, hi) == [k \in 1..(hi - lo) |-> lo + k]

\* every way of cutting rows 1..n into N ordered partitions (empty ones too)
Partitionings(n, N) ==
    {[i \in 0..(N - 1) |-> RowsBetween(IF i = 0 THEN 0 ELSE e[i - 1], e[i])] :
        e \in {f \in [0..(N - 1) -> 0..n] :
                  /\ f[N - 1] = n
                  /\ \A i \in 1..(N - 1) : f[i - 1] <= f[i]}}

\* ------------------------------------------------------------- the state
VARIABLES
    data,        \* df: the rows' coordinates, data[r] = <<x, y>>
    parts,       \* df: the partitions, parts[i] = the rows of partition i
    glyph,       \* the glyph's class
    canvas,      \* [x_range, y_range], each <<>> (None) or <<min, max>>
    configured,  \* dask.base.get_scheduler(): the override or NoScheduler
    dfdefault,   \* df.__dask_scheduler__
    pc,          \* position of dask_pipeline
    builder,     \* the function glyph_dispatch selected
    error,       \* the exception that left dask_pipeline, "" when none
    scans,       \* number of partitions scanned by compute_bounds_dask
    geom,        \* [shape, bounds, st, axis] of shape_bounds_st_and_axis
    dsk,         \* the plan: [kind, leaves, keys2, raw]
    scheduler,   \* the scheduler chosen at line 25
    loaded,      \* raw partition keys (old_name, j) already computed
    leaf,        \* leaf[i]: [ran, rows, plot_start, aggs, tries]
    pool,        \* generic plan: the buffers not yet merged [members, aggs]
    ranby,       \* the schedulers that ran a task of this call
    result,      \* the returned LabeledGrid, <<>> when none
    owner,       \* owner[b]: buffer b's [writers, pixels, handed]
    call         \* a direct call of wrapped_combine: [x, out, applied]

vars == <<data, parts, glyph, canvas, configured, dfdefault, pc, builder,
          error, scans, geom, dsk, scheduler, loaded, leaf, pool, ranby, result,
          owner, call>>

npartitions == Cardinality(DOMAIN parts)
PartIds == 0..(npartitions - 1)

\* ------------------------------------------------------ axis and buffers
Pixels(shape) == (0..(shape[1] - 1)) \X (0..(shape[2] - 1))

\* create(shape): a fresh zero-filled buffer
create(shape) == [p \in Pixels(shape) |-> 0]

\* scale = n / span and translate = -min * scale, kept as <<n, span, min>>
compute_scale_and_translate(range, n) ==
    <<n, IF range[2] = range[1] THEN 1 ELSE range[2] - range[1], range[1]>>

\* the n bin centres min + (i + 1/2) * span / n as fractions <<num, den>>
compute_index(ast, n) ==
    [i \in 1..n |-> <<2 * ast[3] * n + (2 * i - 1) * ast[2], 2 * n>>]

\* pixel of coordinate v on an axis; the upper bound falls in the last pixel
Pix(v, ast) ==
    LET q == ((v - ast[3]) * ast[1]) \div ast[2]
    IN  IF q >= ast[1] THEN ast[1] - 1 ELSE q

InBounds(pt, bounds) ==
    /\ bounds[1] <= pt[1] /\ pt[1] <= bounds[2]
    /\ bounds[3] <= pt[2] /\ pt[2] <= bounds[4]

\* append: one more count in the pixel of pt, nothing outside the bounds
append(aggs, pt, st, bounds) ==
    IF InBounds(pt, bounds)
    THEN LET px == <<Pix(pt[2], <<st[4], st[5], st[6]>>),
                     Pix(pt[1], <<st[1], st[2], st[3]>>)>>
         IN  [aggs EXCEPT ![px] = @ + 1]
    ELSE aggs

\* the point glyph's extend: append every row of the frame, in order
RECURSIVE extend_points(_, _, _, _)
extend_points(aggs, df, st, bounds) ==
    IF Len(df) = 0 THEN aggs
    ELSE extend_points(append(aggs, data[Head(df)], st, bounds), Tail(df), st, bounds)

\* the segments the line glyph draws: one per pair of consecutive rows
Segments(df) == [k \in 1..(Len(df) - 1) |-> <<df[k], df[k + 1]>>]

\* the line glyph's extend: every segment marks the pixels of its two ends
RECURSIVE extend_segments(_, _, _, _)
extend_segments(aggs, segs, st, bounds) ==
    IF Len(segs) = 0 THEN aggs
    ELSE LET s == Head(segs)
             a1 == append(aggs, data[s[1]], st, bounds)
             a2 == append(a1, data[s[2]], st, bounds)
         IN  extend_segments(a2, Tail(segs), st, bounds)

extend_line(aggs, df, st, bounds, plot_start) ==
    extend_segments(aggs, Segments(df), st, bounds)

\* combine is defined for a non-empty list only; on the empty list it raises
combine_raises(xs) == Len(xs) = 0
CombineError == "IncompatibleAggregateShapeError"

\* combine of a count reduction: the cell-wise sum of a non-empty list
RECURSIVE combine(_)
combine(xs) ==
    IF Len(xs) = 1 THEN xs[1]
    ELSE LET rest == combine(Tail(xs))
         IN  [p \in DOMAIN xs[1] |-> xs[1][p] + rest[p]]

\* finalize: the merged buffer with its coordinates and dimension labels
finalize(aggs, coords, dims) == <<[data |-> aggs, coords |-> coords, dims |-> dims]>>

\* ------------------------------------------------------- glyph dispatch
\* the classes a glyph's class inherits from, most specific first
Mro(g) == IF g = "Other" THEN <<g>> ELSE <<g, "Glyph">>

\* the builders registered on glyph_dispatch
RegisteredNoLine == [c \in {"Glyph"} |-> "default"]
Registered == [c \in {"Glyph", "LineAxis0"} |-> IF c = "Glyph" THEN "default" ELSE "line"]

\* Dispatcher.__call__: the builder of the first registered class, "" if none
glyph_dispatch(g) ==
    LET hits == {k \in 1..Len(Mro(g)) : Mro(g)[k] \in DOMAIN Registered}
    IN  IF hits = {} THEN ""
        ELSE Registered[Mro(g)[CHOOSE k \in hits : \A m \in hits : k <= m]]

\* ------------------------------------------------------------- bounds
\* Python's `a or b` on optional tuples
Or(a, b) == IF a # <<>> THEN a ELSE b

AllRows == 1..Len(data)
Min(S) == CHOOSE v \in S : \A w \in S : v <= w
Max(S) == CHOOSE v \in S : \A w \in S : v >= w

\* glyph.compute_bounds_dask: one extent reduction per partition, then the
\* global extents; no finite extent at all is an EmptyDatasetError
compute_bounds_dask ==
    IF AllRows = {}
    THEN [raised |-> TRUE, scanned |-> npartitions, x |-> <<>>, y |-> <<>>]
    ELSE [raised |-> FALSE, scanned |-> npartitions,
          x |-> <<Min({data[r][1] : r \in AllRows}), Max({data[r][1] : r \in AllRows})>>,
          y |-> <<Min({data[r][2] : r \in AllRows}), Max({data[r][2] : r \in AllRows})>>]

Geometry(x_range, y_range) ==
    LET x_st == compute_scale_and_translate(x_range, PlotWidth)
        y_st == compute_scale_and_translate(y_range, PlotHeight)
    IN  [shape |-> <<PlotHeight, PlotWidth>>,
         bounds |-> x_range \o y_range,
         st |-> x_st \o y_st,
         axis |-> <<compute_index(x_st, PlotWidth), compute_index(y_st, PlotHeight)>>]

NoGeometry == [shape |-> <<>>, bounds |-> <<>>, st |-> <<>>, axis |-> <<>>]

\* a slip: an empty dataset silently gets the range (0, 1) on both axes
shape_bounds_default_range(cv) ==
    IF cv.x_range = <<>> \/ cv.y_range = <<>>
    THEN LET ext == compute_bounds_dask
         IN  [raised |-> FALSE, scanned |-> ext.scanned,
              geom |-> Geometry(Or(cv.x_range, Or(ext.x, <<0, 1>>)),
                                Or(cv.y_range, Or(ext.y, <<0, 1>>)))]
    ELSE [raised |-> FALSE, scanned |-> 0, geom |-> Geometry(cv.x_range, cv.y_range)]

\* a slip: the extents are computed even when both ranges are supplied
shape_bounds_always_scan(cv) ==
    LET ext == compute_bounds_dask
    IN  IF ext.raised
        THEN [raised |-> TRUE, scanned |-> ext.scanned, geom |-> NoGeometry]
        ELSE [raised |-> FALSE, scanned |-> ext.scanned,
              geom |-> Geometry(Or(cv.x_range, ext.x), Or(cv.y_range, ext.y))]

\* a slip: `x_extents or canvas.x_range`, the computed extent wins
shape_bounds_extents_first(cv) ==
    IF cv.x_range = <<>> \/ cv.y_range = <<>>
    THEN LET ext == compute_bounds_dask
         IN  IF ext.raised
             THEN [raised |-> TRUE, scanned |-> ext.scanned, geom |-> NoGeometry]
             ELSE [raised |-> FALSE, scanned |-> ext.scanned,
                   geom |-> Geometry(Or(ext.x, cv.x_range), Or(ext.y, cv.y_range))]
    ELSE [raised |-> FALSE, scanned |-> 0, geom |-> Geometry(cv.x_range, cv.y_range)]

\* shape_bounds_st_and_axis(df, canvas, glyph): what it returns, whether it
\* raised, and how many partitions it scanned
shape_bounds_st_and_axis(cv) ==
    IF cv.x_range = <<>> \/ cv.y_range = <<>>
    THEN LET ext == compute_bounds_dask
         IN  IF ext.raised
             THEN [raised |-> TRUE, scanned |-> ext.scanned, geom |-> NoGeometry]
             ELSE [raised |-> FALSE, scanned |-> ext.scanned,
                   geom |-> Geometry(Or(cv.x_range, ext.x), Or(cv.y_range, ext.y))]
    ELSE [raised |-> FALSE, scanned |-> 0, geom |-> Geometry(cv.x_range, cv.y_range)]

\* ------------------------------------------------ the generic plan (default)
\* a slip: the first row of every partition is left out
default_chunk_skip_first(df) ==
    extend_points(create(geom.shape), IF Len(df) = 0 THEN df ELSE Tail(df),
                  geom.st, geom.bounds)

\* default.chunk(df, axis, keepdims): a fresh buffer extended by the frame
default_chunk(df) == extend_points(create(geom.shape), df, geom.st, geom.bounds)

\* the values wrapped_combine is handed: a list of buffers, one buffer (a
\* tuple holding one ndarray), or something else (a bare ndarray)
AsList(bufs) == [type |-> "list", val |-> bufs]
AsTuple(buf) == [type |-> "tuple", val |-> buf]

\* the outcome of a call: the value returned, or the exception raised
Returned(v) == [raised |-> FALSE, error |-> "", val |-> v]
Raised(e) == [raised |-> TRUE, error |-> e, val |-> <<>>]
NoCall == [x |-> [type |-> "", val |-> <<>>], out |-> Returned(<<>>), applied |-> FALSE]

\* a slip: only the first buffer of the list is kept
wrapped_combine_first(x) ==
    IF x.type = "list"
    THEN IF combine_raises(x.val) THEN Raised(CombineError) ELSE Returned(x.val[1])
    ELSE IF x.type = "tuple" THEN Returned(x.val)
    ELSE Raised("TypeError")

\* a slip: a value that is neither a list nor a tuple is passed through
wrapped_combine_no_typecheck(x) ==
    IF x.type = "list"
    THEN IF combine_raises(x.val) THEN Raised(CombineError) ELSE Returned(combine(x.val))
    ELSE Returned(x.val)

\* default.wrapped_combine(x, axis, keepdims)
wrapped_combine(x) ==
    IF x.type = "list"
    THEN IF combine_raises(x.val) THEN Raised(CombineError) ELSE Returned(combine(x.val))
    ELSE IF x.type = "tuple" THEN Returned(x.val)
    ELSE Raised("TypeError")

Dims == <<"y", "x">>

\* default.wrapped_finalize(x, axis, keepdims)
wrapped_finalize(x) == finalize(wrapped_combine(x).val, geom.axis, Dims)

\* the plan da.reduction builds: one chunk task per block of df_array, the
\* blocks being the partitions of the dataframe layer
default_plan ==
    [kind |-> "array",
     leaves |-> [i \in PartIds |-> <<i>>],
     keys2 |-> [k \in 1..npartitions |-> k - 1],
     raw |-> PartIds]

\* --------------------------------------------------------- the line plan
\* df.iloc[-1:]: the last row as a frame, the empty frame when there is none
iloc_last(df) == IF Len(df) = 0 THEN <<>> ELSE <<df[Len(df)]>>

\* a slip: the whole previous partition is prepended, not only its last row
line_chunk_input_whole(frames) ==
    IF Len(frames) = 2
    THEN [rows |-> frames[1] \o frames[2], plot_start |-> FALSE]
    ELSE [rows |-> frames[1], plot_start |-> TRUE]

\* a slip: the last row of the previous partition is not prepended
line_chunk_input_no_boundary(frames) ==
    IF Len(frames) = 2
    THEN [rows |-> frames[2], plot_start |-> FALSE]
    ELSE [rows |-> frames[1], plot_start |-> TRUE]

\* line.chunk(df, df2=None), lines 148-151: the frame and the plot_start flag
\* extend is called with; frames is <<df>> or <<df, df2>>
line_chunk_input(frames) ==
    IF Len(frames) = 2
    THEN [rows |-> iloc_last(frames[1]) \o frames[2], plot_start |-> FALSE]
    ELSE [rows |-> frames[1], plot_start |-> TRUE]

\* line.chunk(df, df2=None), lines 152-154
line_chunk(frames) ==
    LET inp == line_chunk_input(frames)
    IN  extend_line(create(geom.shape), inp.rows, geom.st, geom.bounds, inp.plot_start)

\* a slip: keys2 is built with range(npartitions - 1), the last leaf is left out
line_plan_short ==
    [kind |-> "graph",
     leaves |-> [i \in {0} \cup 1..(npartitions - 1) |->
                    IF i = 0 THEN <<0>> ELSE <<i - 1, i>>],
     keys2 |-> [k \in 1..(npartitions - 1) |-> k - 1],
     raw |-> {}]

\* the graph `line` builds: leaf (name, 0) reads partition 0, leaf (name, i)
\* reads partitions i - 1 and i, the terminal node reads every leaf
line_plan ==
    [kind |-> "graph",
     leaves |-> [i \in {0} \cup 1..(npartitions - 1) |->
                    IF i = 0 THEN <<0>> ELSE <<i - 1, i>>],
     keys2 |-> [k \in 1..npartitions |-> k - 1],
     raw |-> {}]

NoPlan == [kind |-> "", leaves |-> <<>>, keys2 |-> <<>>, raw |-> {}]

\* the plan d as a dask graph: its keys, and for each key the function of its
\* task and the keys the task reads.  ("raw", j) is (old_name, j), ("leaf", i)
\* is (name, i), Terminal is name
Terminal == <<"terminal", 0>>
TaskKeys(d) ==
    {<<"raw", j>> : j \in d.raw} \cup {<<"leaf", i>> : i \in DOMAIN d.leaves} \cup {Terminal}
TaskFunc(d, k) ==
    IF k[1] = "raw" THEN "partition" ELSE IF k[1] = "leaf" THEN "chunk" ELSE "finalize"
TaskArgs(d, k) ==
    IF k[1] = "raw" THEN {}
    ELSE IF k[1] = "leaf"
         THEN {<<"raw", d.leaves[k[2]][n]>> : n \in 1..Len(d.leaves[k[2]])}
         ELSE {<<"leaf", d.keys2[n]>> : n \in 1..Len(d.keys2)}

\* the keys reachable from the keys in S along the tasks' arguments
RECURSIVE Closure(_, _)
Closure(d, S) ==
    LET more == S \cup UNION {TaskArgs(d, k) : k \in S \cap TaskKeys(d)}
    IN  IF more = S THEN S ELSE Closure(d, more)

\* ----------------------------------------------------------- scheduler
\* a slip: the dataset's default wins over the configured override
choose_scheduler_default_first(cfg, dflt) == dflt

\* line 25: dask.base.get_scheduler() or df.__dask_scheduler__
choose_scheduler(cfg, dflt) == IF cfg # NoScheduler THEN cfg ELSE dflt

\* ------------------------------------------------------------------ Init
Init ==
    /\ data \in SeqsUpTo(Points, MaxRows)
    /\ \E N \in 1..MaxParts : parts \in Partitionings(Len(data), N)
    /\ glyph \in GlyphTypes
    /\ canvas \in [x_range : XRanges, y_range : YRanges]
    /\ configured \in {NoScheduler, "sync"}
    /\ dfdefault = "threaded"
    /\ pc = "start"
    /\ builder = ""
    /\ error = ""
    /\ scans = 0
    /\ geom = NoGeometry
    /\ dsk = NoPlan
    /\ scheduler = NoScheduler
    /\ loaded = {}
    /\ leaf = <<>>
    /\ pool = {}
    /\ ranby = {}
    /\ result = <<>>
    /\ owner = <<>>
    /\ call = NoCall

\* -------------------------------------------------- building the plan
\* dask_pipeline, line 21: glyph_dispatch selects the builder or raises
Dispatch ==
    /\ pc = "start"
    /\ builder' = glyph_dispatch(glyph)
    /\ IF builder' = ""
       THEN pc' = "failed" /\ error' = "UnsupportedGlyphError"
       ELSE pc' = "bounds" /\ error' = error
    /\ UNCHANGED <<call, owner, data, parts, glyph, canvas, configured, dfdefault, scans, geom,
                   dsk, scheduler, loaded, leaf, pool, ranby, result>>

\* default line 69, line line 138: the bounds are resolved before anything
\* else of the builder runs; an exception leaves the pipeline
ResolveBounds ==
    /\ pc = "bounds"
    /\ LET r == shape_bounds_st_and_axis(canvas)
       IN  /\ scans' = r.scanned
           /\ geom' = r.geom
           /\ IF r.raised
              THEN pc' = "failed" /\ error' = "EmptyDatasetError"
              ELSE pc' = "build" /\ error' = error
    /\ UNCHANGED <<call, owner, data, parts, glyph, canvas, configured, dfdefault, builder,
                   dsk, scheduler, loaded, leaf, pool, ranby, result>>

NewLeafEarly == [ran |-> FALSE, rows |-> <<>>, plot_start |-> FALSE, aggs |-> <<>>, tries |-> 0]

\* a slip: the plan is built before the bounds are resolved
BuildPlanEarly ==
    /\ pc = "bounds"
    /\ dsk = NoPlan
    /\ dsk' = IF builder = "line" THEN line_plan ELSE default_plan
    /\ leaf' = [i \in DOMAIN dsk'.leaves |-> NewLeafEarly]
    /\ UNCHANGED <<call, owner, data, parts, glyph, canvas, configured, dfdefault, pc,
                   builder, error, scans, geom, scheduler, loaded, pool, ranby, result>>

NewLeaf == [ran |-> FALSE, rows |-> <<>>, plot_start |-> FALSE, aggs |-> <<>>, tries |-> 0]

\* default lines 78-128, line lines 147-164: the plan and its name
BuildPlan ==
    /\ pc = "build"
    /\ dsk' = IF builder = "line" THEN line_plan ELSE default_plan
    /\ leaf' = [i \in DOMAIN dsk'.leaves |-> NewLeaf]
    /\ pc' = "sched"
    /\ UNCHANGED <<call, owner, data, parts, glyph, canvas, configured, dfdefault, builder, error,
                   scans, geom, scheduler, loaded, pool, ranby, result>>

\* dask_pipeline, line 25
ChooseScheduler ==
    /\ pc = "sched"
    /\ scheduler' = choose_scheduler(configured, dfdefault)
    /\ pc' = "submit"
    /\ UNCHANGED <<call, owner, data, parts, glyph, canvas, configured, dfdefault, builder, error,
                   scans, geom, dsk, loaded, leaf, pool, ranby, result>>

\* dask_pipeline, lines 27-28: the plan is a dask array, da.compute runs it
SubmitArray ==
    /\ pc = "submit"
    /\ dsk.kind = "array"
    /\ pc' = "run"
    /\ UNCHANGED <<call, owner, data, parts, glyph, canvas, configured, dfdefault, builder, error,
                   scans, geom, dsk, scheduler, loaded, leaf, pool, ranby, result>>

\* a slip: the dataframe's graph is not merged into the plan
SubmitGraphNoUpdate ==
    /\ pc = "submit"
    /\ dsk.kind = "graph"
    /\ pc' = "run"
    /\ UNCHANGED <<call, owner, data, parts, glyph, canvas, configured, dfdefault, builder,
                   error, scans, geom, dsk, scheduler, loaded, leaf, pool, ranby, result>>

\* dask_pipeline, lines 30-35: the dataframe's graph is merged into the plan
\* and the scheduler is called on it
SubmitGraph ==
    /\ pc = "submit"
    /\ dsk.kind = "graph"
    /\ dsk' = [dsk EXCEPT !.raw = @ \cup PartIds]
    /\ pc' = "run"
    /\ UNCHANGED <<call, owner, data, parts, glyph, canvas, configured, dfdefault, builder, error,
                   scans, geom, scheduler, loaded, leaf, pool, ranby, result>>

\* --------------------------------------------------- running the plan
\* the scheduler runs the tasks in any order the dependencies allow
Frames(args) == [k \in 1..Len(args) |-> parts[args[k]]]
\* a slip: a leaf also waits for the leaf of the partition before it
ReadyChained(i) ==
    /\ i \in DOMAIN dsk.leaves
    /\ ~leaf[i].ran
    /\ \A k \in 1..Len(dsk.leaves[i]) : dsk.leaves[i][k] \in loaded
    /\ i > 0 => leaf[i - 1].ran

\* a leaf can run when it has not run and every key it reads is computed
Ready(i) ==
    /\ i \in DOMAIN dsk.leaves
    /\ ~leaf[i].ran
    /\ \A k \in 1..Len(dsk.leaves[i]) : dsk.leaves[i][k] \in loaded
AllLeavesRan == \A k \in 1..Len(dsk.keys2) : leaf[dsk.keys2[k]].ran

\* a slip: create(shape) is called once, outside chunk: one shared buffer
alloc_shared(i) == 0

\* lines 79 and 152: create(shape) runs inside chunk, so every leaf task
\* gets a buffer of its own, named here by the task
alloc(i) == i

\* task t has written buffer b, whose value is now aggs
Written(o, b, t, aggs) ==
    IF b \in DOMAIN o
    THEN [o EXCEPT ![b].writers = @ \cup {t}]
    ELSE o @@ (b :> [writers |-> {t}, pixels |-> DOMAIN aggs, handed |-> FALSE])

\* the buffers of the leaves ls are now inputs of a merge or terminal task
Handed(o, ls) ==
    [b \in DOMAIN o |-> IF b \in {alloc(l) : l \in ls} THEN [o[b] EXCEPT !.handed = TRUE]
                        ELSE o[b]]

\* a task of the dataframe's own graph: partition j becomes available
LoadPartition(j) ==
    /\ pc = "run"
    /\ j \in dsk.raw \ loaded
    /\ loaded' = loaded \cup {j}
    /\ ranby' = ranby \cup {scheduler}
    /\ UNCHANGED <<call, owner, data, parts, glyph, canvas, configured, dfdefault, pc, builder,
                   error, scans, geom, dsk, scheduler, leaf, pool, result>>

\* a leaf of the generic plan: default.chunk on block i
RunChunk(i) ==
    /\ pc = "run"
    /\ dsk.kind = "array"
    /\ Ready(i)
    /\ LET df == Frames(dsk.leaves[i])[1]
           aggs == default_chunk(df)
       IN  /\ leaf' = [leaf EXCEPT ![i] = [ran |-> TRUE, rows |-> df, plot_start |-> TRUE,
                                           aggs |-> aggs, tries |-> @.tries + 1]]
           /\ pool' = pool \cup {[members |-> {i}, aggs |-> aggs]}
           /\ owner' = Written(owner, alloc(i), i, aggs)
    /\ ranby' = ranby \cup {scheduler}
    /\ UNCHANGED <<call, data, parts, glyph, canvas, configured, dfdefault, pc, builder,
                   error, scans, geom, dsk, scheduler, loaded, result>>

\* a leaf of the line plan: line.chunk on the task's one or two partitions
RunLineChunk(i) ==
    /\ pc = "run"
    /\ dsk.kind = "graph"
    /\ Ready(i)
    /\ LET frames == Frames(dsk.leaves[i])
           inp == line_chunk_input(frames)
           aggs == line_chunk(frames)
       IN  /\ leaf' = [leaf EXCEPT ![i] = [ran |-> TRUE, rows |-> inp.rows,
                                            plot_start |-> inp.plot_start,
                                            aggs |-> aggs,
                                            tries |-> @.tries + 1]]
           /\ owner' = Written(owner, alloc(i), i, aggs)
    /\ ranby' = ranby \cup {scheduler}
    /\ UNCHANGED <<call, data, parts, glyph, canvas, configured, dfdefault, pc, builder,
                   error, scans, geom, dsk, scheduler, loaded, pool, result>>

\* the lists a set of buffers can be delivered as
Orders(S) == {f \in [1..Cardinality(S) -> S] : \A a, b \in DOMAIN f : a # b => f[a] # f[b]}
Bufs(f) == [k \in DOMAIN f |-> f[k].aggs]

\* an intermediate node of da.reduction's tree: wrapped_combine on a group
\* of finished buffers, in whatever grouping and order the tree has
Merge ==
    /\ pc = "run"
    /\ dsk.kind = "array"
    /\ \E S \in SUBSET pool :
          /\ Cardinality(S) >= 2
          /\ \E f \in Orders(S) :
                LET r == wrapped_combine(AsList(Bufs(f)))
                IN  /\ ~r.raised
                    /\ pool' = (pool \ S) \cup
                               {[members |-> UNION {n.members : n \in S}, aggs |-> r.val]}
                    /\ owner' = Handed(owner, UNION {n.members : n \in S})
    /\ ranby' = ranby \cup {scheduler}
    /\ UNCHANGED <<call, data, parts, glyph, canvas, configured, dfdefault, pc, builder,
                   error, scans, geom, dsk, scheduler, loaded, leaf, result>>

\* the terminal node of da.reduction: wrapped_finalize on what is left, a
\* list of buffers or a single buffer; da.compute returns its value, or the
\* exception of wrapped_combine leaves the call
FinalizeArray ==
    /\ pc = "run"
    /\ dsk.kind = "array"
    /\ AllLeavesRan
    /\ UNION {n.members : n \in pool} = PartIds
    /\ \E f \in Orders(pool) :
          \E x \in {AsList(Bufs(f))} \cup
                   (IF Cardinality(pool) = 1 THEN {AsTuple(f[1].aggs)} ELSE {}) :
             IF wrapped_combine(x).raised
             THEN pc' = "failed" /\ error' = wrapped_combine(x).error /\ result' = result
             ELSE pc' = "done" /\ error' = error /\ result' = wrapped_finalize(x)
    /\ owner' = Handed(owner, PartIds)
    /\ ranby' = ranby \cup {scheduler}
    /\ UNCHANGED <<call, data, parts, glyph, canvas, configured, dfdefault, builder,
                   scans, geom, dsk, scheduler, loaded, leaf, pool>>

\* the terminal node of the line plan, lines 162-163: finalize of the combine
\* of all leaf buffers in key order; scheduler(dsk, name) returns its value,
\* or the exception of combine leaves the call
FinalizeGraph ==
    /\ pc = "run"
    /\ dsk.kind = "graph"
    /\ AllLeavesRan
    /\ LET xs == [k \in 1..Len(dsk.keys2) |-> leaf[dsk.keys2[k]].aggs]
       IN  IF combine_raises(xs)
           THEN pc' = "failed" /\ error' = CombineError /\ result' = result
           ELSE pc' = "done" /\ error' = error
                /\ result' = finalize(combine(xs), geom.axis, Dims)
    /\ owner' = Handed(owner, {dsk.keys2[k] : k \in 1..Len(dsk.keys2)})
    /\ ranby' = ranby \cup {scheduler}
    /\ UNCHANGED <<call, data, parts, glyph, canvas, configured, dfdefault, builder,
                   scans, geom, dsk, scheduler, loaded, leaf, pool>>

\* a slip: the adapter catches the failure of a leaf and lets it run again
TaskFailRetry ==
    /\ pc = "run"
    /\ \E i \in DOMAIN dsk.leaves :
          /\ Ready(i)
          /\ leaf[i].tries < 2
          /\ leaf' = [leaf EXCEPT ![i].tries = @ + 1]
    /\ ranby' = ranby \cup {scheduler}
    /\ UNCHANGED <<call, owner, data, parts, glyph, canvas, configured, dfdefault, pc, builder, error,
                   scans, geom, dsk, scheduler, loaded, pool, result>>

\* lines 28 and 35: a leaf that raises ends the scheduler's run; nothing in
\* dask_pipeline catches the exception, so it leaves the call
TaskFail ==
    /\ pc = "run"
    /\ \E i \in DOMAIN dsk.leaves :
          /\ Ready(i)
          /\ leaf' = [leaf EXCEPT ![i].tries = @ + 1]
    /\ pc' = "failed"
    /\ error' = "TaskError"
    /\ ranby' = ranby \cup {scheduler}
    /\ UNCHANGED <<call, owner, data, parts, glyph, canvas, configured, dfdefault, builder,
                   scans, geom, dsk, scheduler, loaded, pool, result>>

\* lines 28 and 35: the same for the terminal node
TerminalFail ==
    /\ pc = "run"
    /\ AllLeavesRan
    /\ pc' = "failed"
    /\ error' = "TaskError"
    /\ ranby' = ranby \cup {scheduler}
    /\ UNCHANGED <<call, owner, data, parts, glyph, canvas, configured, dfdefault, builder,
                   scans, geom, dsk, scheduler, loaded, leaf, pool, result>>

Next ==
    \/ Dispatch
    \/ ResolveBounds
    \/ BuildPlan
    \/ ChooseScheduler
    \/ SubmitArray
    \/ SubmitGraph
    \/ \E j \in 0..(MaxParts - 1) : LoadPartition(j)
    \/ \E i \in 0..(MaxParts - 1) : RunChunk(i)
    \/ \E i \in 0..(MaxParts - 1) : RunLineChunk(i)
    \/ Merge
    \/ FinalizeArray
    \/ FinalizeGraph
    \/ TaskFail
    \/ TerminalFail

Spec == Init /\ [][Next]_vars

\* ------------------------------------------- wrapped_combine on its own
\* the buffers handed to wrapped_combine: the empty buffer and the buffers
\* with one pixel counted up to MaxCount times
Buffers ==
    LET px == Pixels(<<PlotHeight, PlotWidth>>)
    IN  {create(<<PlotHeight, PlotWidth>>)} \cup
        {[p \in px |-> IF p = q THEN n ELSE 0] : q \in px, n \in 1..MaxCount}

\* the arguments of a call: a non-empty list of buffers, a tuple holding one
\* buffer, a bare ndarray, None
CombineInputs ==
    {AsList(l) : l \in SeqsUpTo(Buffers, MaxList) \ {<<>>}} \cup
    {AsTuple(b) : b \in Buffers} \cup
    {[type |-> "ndarray", val |-> b] : b \in Buffers} \cup
    {[type |-> "NoneType", val |-> <<>>]}

InitCombine ==
    /\ data = <<>>
    /\ parts = <<>>
    /\ glyph = "Point"
    /\ canvas = [x_range |-> <<>>, y_range |-> <<>>]
    /\ configured = NoScheduler
    /\ dfdefault = "threaded"
    /\ pc = "call"
    /\ builder = "default"
    /\ error = ""
    /\ scans = 0
    /\ geom = NoGeometry
    /\ dsk = NoPlan
    /\ scheduler = NoScheduler
    /\ loaded = {}
    /\ leaf = <<>>
    /\ pool = {}
    /\ ranby = {}
    /\ result = <<>>
    /\ owner = <<>>
    /\ call \in [x : CombineInputs, out : {Returned(<<>>)}, applied : {FALSE}]

\* one call of wrapped_combine(x, axis, keepdims)
ApplyWrappedCombine ==
    /\ pc = "call"
    /\ call' = [x |-> call.x, out |-> wrapped_combine(call.x), applied |-> TRUE]
    /\ pc' = "returned"
    /\ UNCHANGED <<owner, data, parts, glyph, canvas, configured, dfdefault, builder, error,
                   scans, geom, dsk, scheduler, loaded, leaf, pool, ranby, result>>

NextCombine == ApplyWrappedCombine

SpecCombine == InitCombine /\ [][NextCombine]_vars

\* ------------------------------------------- a dataset of zero partitions
\* df.npartitions = 0: no partition, no row
InitZero ==
    /\ data = <<>>
    /\ parts = <<>>
    /\ glyph \in GlyphTypes
    /\ canvas \in [x_range : XRanges, y_range : YRanges]
    /\ configured \in {NoScheduler, "sync"}
    /\ dfdefault \in Schedulers
    /\ pc = "start"
    /\ builder = ""
    /\ error = ""
    /\ scans = 0
    /\ geom = NoGeometry
    /\ dsk = NoPlan
    /\ scheduler = NoScheduler
    /\ loaded = {}
    /\ leaf = <<>>
    /\ pool = {}
    /\ ranby = {}
    /\ result = <<>>
    /\ owner = <<>>
    /\ call = NoCall

\* the steps of dask_pipeline that do not need a partition
NextZero ==
    \/ Dispatch
    \/ ResolveBounds
    \/ BuildPlan
    \/ ChooseScheduler
    \/ SubmitArray
    \/ SubmitGraph
    \/ FinalizeArray
    \/ FinalizeGraph
    \/ TerminalFail

SpecZero == InitZero /\ [][NextZero]_vars



\* ================================================================ claims
\* the whole dataset as one partition
WholeFrame == RowsBetween(0, Len(data))
BothSupplied == canvas.x_range # <<>> /\ canvas.y_range # <<>>
Count(e, seq) == Cardinality({k \in DOMAIN seq : seq[k] = e})

\* C1: the generic plan, whatever the partitioning and the grouping of the
\* merges, returns the grid one leaf over the whole dataset gives
PartitionInvarianceGeneric ==
    (pc = "done" /\ builder = "default") =>
        result = finalize(default_chunk(WholeFrame), geom.axis, Dims)

\* C1 witness: three partitions, two rows, one merge of two leaves before
\* the terminal node, and a grid that is not empty
PartitionInvarianceGenericWitness ==
    /\ pc = "done" /\ builder = "default"
    /\ npartitions >= 3 /\ Len(data) >= 2
    /\ Cardinality(pool) = 2
    /\ \E n \in pool : Cardinality(n.members) = 2
    /\ result[1].data # create(geom.shape)

\* C2: the line plan returns, wherever the splits fall, the grid of the
\* single-partition run
LineSplitInvariance ==
    (pc = "done" /\ builder = "line") =>
        result = finalize(line_chunk(<<WholeFrame>>), geom.axis, Dims)

\* the boundary between partitions i - 1 and i carries a segment
Boundary(i) == i \in 1..(npartitions - 1) /\ parts[i - 1] # <<>> /\ parts[i] # <<>>
BoundarySegment(i) == <<parts[i - 1][Len(parts[i - 1])], parts[i][1]>>

\* C3: the segment from the last row of partition i - 1 to the first row of
\* partition i is drawn once by leaf i and by no other leaf
BoundarySegmentOnce ==
    builder = "line" =>
        \A i \in PartIds : Boundary(i) =>
            \A k \in DOMAIN leaf : leaf[k].ran =>
                Count(BoundarySegment(i), Segments(leaf[k].rows)) = IF k = i THEN 1 ELSE 0

\* C3 witness: a finished line run with a segment across a partition boundary
BoundarySegmentOnceWitness ==
    /\ pc = "done" /\ builder = "line"
    /\ \E i \in PartIds : Boundary(i)

\* C4: every execution order ends with the grid of the whole dataset
\* aggregated as one chunk
SchedulerIndependence ==
    pc = "done" =>
        result = finalize(IF builder = "line" THEN line_chunk(<<WholeFrame>>)
                          ELSE default_chunk(WholeFrame), geom.axis, Dims)

\* C5: with both ranges supplied the bounds returned are the supplied ones
\* and no partition is scanned
BoundsSuppliedUnchanged ==
    BothSupplied =>
        /\ scans = 0
        /\ (builder # "" /\ pc # "bounds") => geom.bounds = canvas.x_range \o canvas.y_range

\* C5 witness: shape_bounds_st_and_axis has returned for a dataset with rows
BoundsSuppliedUnchangedWitness ==
    BothSupplied /\ pc = "build" /\ Len(data) > 0

ZeroRowsSuppliedBounds ==
    (BothSupplied /\ Len(data) = 0 /\ builder # "") =>
        /\ error \in {"", "TaskError"}
        /\ \A k \in DOMAIN leaf : leaf[k].ran =>
              leaf[k].aggs = create(<<PlotHeight, PlotWidth>>)
        /\ pc = "done" => result[1].data = create(<<PlotHeight, PlotWidth>>)

\* C7 witness: the finished line run over several empty partitions
ZeroRowsSuppliedBoundsWitness ==
    /\ BothSupplied /\ Len(data) = 0
    /\ pc = "done" /\ builder = "line" /\ npartitions >= 2

\* C8: the call returns one grid or fails; a failed task fails the call, is
\* not run again, and nothing is returned
SingleOutcome ==
    /\ pc = "done" => Len(result) = 1 /\ error = ""
    /\ pc = "failed" => result = <<>> /\ error # ""
    /\ pc \notin {"done", "failed"} => result = <<>> /\ error = ""
    /\ \A i \in DOMAIN leaf :
          /\ leaf[i].tries <= 1
          /\ (leaf[i].tries = 1 /\ ~leaf[i].ran) => pc = "failed" /\ error = "TaskError"

\* C8 witness: one leaf has finished, another has failed, the call has failed
SingleOutcomeWitness ==
    /\ pc = "failed" /\ error = "TaskError"
    /\ \E i, j \in DOMAIN leaf : leaf[i].ran /\ leaf[j].tries = 1 /\ ~leaf[j].ran

\* C9: a line glyph gets the line builder; a glyph with no registered
\* builder fails the call at once, and no other builder runs
DispatchSelectsBuilder ==
    /\ (glyph = "LineAxis0" /\ pc # "start") => builder = "line"
    /\ (glyph = "Other" /\ pc # "start") =>
          /\ pc = "failed" /\ error = "UnsupportedGlyphError"
          /\ builder = "" /\ scans = 0 /\ geom = NoGeometry /\ dsk = NoPlan

\* C9 witness: the call failed on the unregistered glyph
DispatchSelectsBuilderWitness ==
    glyph = "Other" /\ pc = "failed"

\* C10: the configured scheduler runs the plan when there is one, the
\* dataset's default otherwise, and one scheduler runs every task
SchedulerChoice ==
    /\ scheduler = NoScheduler => ranby = {}
    /\ scheduler # NoScheduler =>
          /\ configured # NoScheduler => scheduler = configured
          /\ configured = NoScheduler => scheduler = dfdefault
          /\ ranby \subseteq {scheduler}
    /\ pc \in {"submit", "run", "done"} => scheduler # NoScheduler

\* C10 witness: a finished call whose tasks all ran on the override
SchedulerChoiceWitness ==
    configured = "sync" /\ pc = "done" /\ ranby = {"sync"}

\* C11: nothing of the plan exists before the bounds are resolved (with every
\* partition scanned when they are inferred); the geometry fixed then never
\* changes, and every leaf buffer has its shape
BoundsBarrierState ==
    (dsk # NoPlan \/ leaf # <<>> \/ pool # {} \/ owner # <<>> \/ result # <<>>) =>
        /\ geom # NoGeometry
        /\ ~BothSupplied => scans = npartitions
        /\ \A b \in DOMAIN owner : owner[b].pixels = Pixels(geom.shape)
BoundsBarrier ==
    /\ []BoundsBarrierState
    /\ [][geom # NoGeometry => geom' = geom]_vars

\* C11 witness: a finished run over several partitions with inferred bounds
BoundsBarrierWitness ==
    /\ ~BothSupplied /\ pc = "done" /\ npartitions >= 2
    /\ scans = npartitions /\ geom # NoGeometry

\* C12: leaf 0 of the line plan extends the rows of partition 0 with
\* plot_start true; leaf i >= 1 extends the last row of partition i - 1 (when
\* it has one) followed by the rows of partition i, with plot_start false
LineLeafInputs ==
    builder = "line" =>
        \A i \in DOMAIN leaf : leaf[i].ran =>
            IF i = 0
            THEN leaf[i].rows = parts[0] /\ leaf[i].plot_start
            ELSE /\ ~leaf[i].plot_start
                 /\ leaf[i].rows =
                       (IF parts[i - 1] = <<>> THEN <<>>
                        ELSE <<parts[i - 1][Len(parts[i - 1])]>>) \o parts[i]

\* C12 witness: leaf 1 has run on a two-row partition 0 and a following row
LineLeafInputsWitness ==
    /\ builder = "line" /\ npartitions >= 2
    /\ leaf # <<>> /\ leaf[0].ran /\ leaf[1].ran
    /\ Len(parts[0]) >= 1 /\ Len(parts[1]) >= 1

\* the raw partitions leaf i of the line plan is to read
LeafInputs(i) == {j \in PartIds : j = i \/ j = i - 1}

\* C13: a leaf of the line plan reads only the raw partitions i - 1 and i, and
\* can run as soon as they are available, whatever the other leaves have done
LineLeafEnabled ==
    (builder = "line" /\ pc = "run") =>
        \A i \in DOMAIN dsk.leaves :
            (~leaf[i].ran /\ LeafInputs(i) \subseteq loaded) => ENABLED RunLineChunk(i)
LineLeavesIndependent ==
    /\ []LineLeafEnabled
    /\ [][(builder = "line" /\ dsk' # dsk) =>
             \A i \in DOMAIN dsk'.leaves :
                 {dsk'.leaves[i][k] : k \in 1..Len(dsk'.leaves[i])} = LeafInputs(i)]_vars

\* C13 witness: leaf 1 has finished while leaf 0 has not yet run
LineLeavesIndependentWitness ==
    /\ builder = "line" /\ pc = "run" /\ npartitions >= 2
    /\ leaf[1].ran /\ ~leaf[0].ran

\* no task of the plan reaches itself along its arguments
Acyclic(d) == \A k \in TaskKeys(d) : k \notin Closure(d, TaskArgs(d, k))
\* the tasks no other task reads
Sinks(d) == {k \in TaskKeys(d) : \A k2 \in TaskKeys(d) : k \notin TaskArgs(d, k2)}

\* the shape of a plan d: acyclic, the terminal node its only sink and its
\* only finalize task, and in the line plan the terminal node reads the
\* leaves 0 .. N-1 in that order
PlanShapeOf(d) ==
    /\ Acyclic(d)
    /\ Sinks(d) = {Terminal}
    /\ {k \in TaskKeys(d) : TaskFunc(d, k) = "finalize"} = {Terminal}
    /\ builder = "line" =>
          /\ d.keys2 = [k \in 1..npartitions |-> k - 1]
          /\ TaskArgs(d, Terminal) = {<<"leaf", i>> : i \in PartIds}
FinalizedLast == result # <<>> => dsk # NoPlan /\ AllLeavesRan /\ pc = "done"

\* C14: whenever the plan is built or changed it has the shape PlanShapeOf,
\* and a grid exists only once every leaf of the plan has run
PlanShape ==
    /\ []FinalizedLast
    /\ [][dsk' # dsk => PlanShapeOf(dsk')]_vars

\* C14 witness: a finished line run over the largest number of partitions
PlanShapeWitness ==
    builder = "line" /\ npartitions >= 3 /\ pc = "done" /\ Len(dsk.keys2) >= 3

RECURSIVE SumOver(_, _)
SumOver(f, S) ==
    IF S = {} THEN 0
    ELSE LET e == CHOOSE x \in S : TRUE IN f[e] + SumOver(f, S \ {e})
GridSum(aggs) == SumOver(aggs, DOMAIN aggs)
AllInBounds == \A r \in AllRows : InBounds(data[r], geom.bounds)

\* C15: the generic plan has one leaf per partition, leaf i reads partition i
\* and nothing else and runs once, and with every row inside the bounds the
\* counts of the final grid add up to the number of rows
GenericLeaves ==
    (builder = "default" /\ dsk # NoPlan) =>
        /\ DOMAIN dsk.leaves = PartIds
        /\ \A i \in PartIds :
              /\ dsk.leaves[i] = <<i>>
              /\ leaf[i].ran => leaf[i].rows = parts[i] /\ leaf[i].tries = 1
        /\ (pc = "done" /\ AllInBounds) => GridSum(result[1].data) = Len(data)

\* C15 witness: a finished generic run, several partitions, several rows,
\* all of them inside the bounds
GenericLeavesWitness ==
    /\ builder = "default" /\ pc = "done" /\ AllInBounds
    /\ npartitions >= 2 /\ Len(data) >= 2 /\ \E i \in PartIds : Len(parts[i]) >= 2

\* C19: once the dataframe's graph is merged into the line plan, every key a
\* task reachable from the terminal node reads is a key of the graph, and
\* the partitions and leaves read are numbered 0 .. N-1
DependencyClosure ==
    (builder = "line" /\ pc \in {"run", "done"}) =>
        \A k \in Closure(dsk, {Terminal}) :
            /\ k \in TaskKeys(dsk)
            /\ k[1] \in {"raw", "leaf"} => k[2] \in PartIds

\* C19 witness: the submitted line plan of several partitions, nothing run yet
DependencyClosureWitness ==
    /\ builder = "line" /\ pc = "run" /\ npartitions >= 2 /\ loaded = {}
    /\ Cardinality(Closure(dsk, {Terminal})) = 2 * npartitions + 1

\* C16 (state part): every buffer has exactly one writer, a leaf that has
\* run, and the shape (height, width); every leaf that has run wrote exactly
\* one buffer; the leaf of a buffer that was handed on has no further step
BufferOwnershipState ==
    /\ \A b \in DOMAIN owner :
          /\ Cardinality(owner[b].writers) = 1
          /\ owner[b].pixels = Pixels(<<PlotHeight, PlotWidth>>)
          /\ \A t \in owner[b].writers :
                /\ t \in DOMAIN leaf /\ leaf[t].ran
                /\ DOMAIN leaf[t].aggs = owner[b].pixels
                /\ owner[b].handed => ~ENABLED RunChunk(t) /\ ~ENABLED RunLineChunk(t)
    /\ \A i \in DOMAIN leaf :
          leaf[i].ran => Cardinality({b \in DOMAIN owner : i \in owner[b].writers}) = 1

\* C16: buffer ownership; the state part always holds, and a buffer that
\* was handed to a merge or terminal task is never written again
BufferOwnership ==
    /\ []BufferOwnershipState
    /\ [][\A b \in DOMAIN owner :
             owner[b].handed => b \in DOMAIN owner' /\ owner'[b] = owner[b]]_vars

\* C16 witness: a generic run of three partitions in which two buffers were
\* merged while the third leaf has not run yet
BufferOwnershipWitness ==
    /\ builder = "default" /\ pc = "run" /\ npartitions = 3
    /\ Cardinality({b \in DOMAIN owner : owner[b].handed}) = 2
    /\ \E i \in PartIds : ~leaf[i].ran

OneSupplied == (canvas.x_range = <<>>) # (canvas.y_range = <<>>)
XExtent == <<Min({data[r][1] : r \in AllRows}), Max({data[r][1] : r \in AllRows})>>
YExtent == <<Min({data[r][2] : r \in AllRows}), Max({data[r][2] : r \in AllRows})>>

\* C20: with exactly one of x_range and y_range supplied, resolving the
\* bounds of a dataset that has rows scans every partition, keeps the
\* supplied range unchanged on its axis and puts the extent of the data on
\* the other axis
PartialBounds ==
    (OneSupplied /\ Len(data) > 0 /\ builder # "" /\ pc # "bounds") =>
        /\ scans = npartitions
        /\ geom # NoGeometry
        /\ geom.bounds = (IF canvas.x_range # <<>> THEN canvas.x_range ELSE XExtent) \o
                         (IF canvas.y_range # <<>> THEN canvas.y_range ELSE YExtent)

\* C20 witness: bounds just resolved with x_range supplied and y_range
\* missing, and the extent of the data on x differs from the supplied range
PartialBoundsWitness ==
    /\ pc = "build" /\ canvas.x_range # <<>> /\ canvas.y_range = <<>>
    /\ Len(data) >= 2 /\ npartitions >= 2
    /\ XExtent # canvas.x_range /\ geom.bounds = canvas.x_range \o YExtent

\* the cell-wise sum of the buffers of a list, stated without combine
CellSum(xs) ==
    [p \in Pixels(<<PlotHeight, PlotWidth>>) |->
        SumOver([k \in 1..Len(xs) |-> xs[k][p]], 1..Len(xs))]

\* C17: wrapped_combine returns the merge of a list of buffers, returns the
\* buffer of a tuple unchanged, and for any other argument raises TypeError
\* and returns no buffer
WrappedCombineShapes ==
    call.applied =>
        IF call.x.type = "list"
        THEN ~call.out.raised /\ call.out.val = CellSum(call.x.val)
        ELSE IF call.x.type = "tuple"
             THEN ~call.out.raised /\ call.out.val = call.x.val
             ELSE call.out.raised /\ call.out.error = "TypeError" /\ call.out.val = <<>>

\* C17 witness: a call on a list of two different non-empty buffers returned
WrappedCombineShapesWitness ==
    /\ call.applied /\ call.x.type = "list" /\ Len(call.x.val) = 2
    /\ call.x.val[1] # call.x.val[2]
    /\ GridSum(call.x.val[1]) > 0 /\ GridSum(call.x.val[2]) > 0
    /\ ~call.out.raised /\ GridSum(call.out.val) = GridSum(call.x.val[1]) + GridSum(call.x.val[2])

\* C18: for a dataset of zero partitions whose bounds were resolved and
\* whose plan was built, the terminal task raises nothing of its own (a run
\* fails only when the scheduler loses the task), and a finished run holds
\* the zero-filled grid of shape (height, width)
ZeroPartitionsGrid ==
    (npartitions = 0 /\ geom # NoGeometry /\ dsk # NoPlan) =>
        /\ pc = "failed" => error = "TaskError"
        /\ pc = "done" => result # <<>> /\ result[1].data = create(<<PlotHeight, PlotWidth>>)
====
